---- MODULE Spec2Model ----
(***************************************************************************)
(* Model of src/main.py: the TTSManager facade (speak, the two backends,   *)
(* play_audio), the interactive frontend TTSApp and the command-line       *)
(* frontend run_cli.                                                       *)
(*                                                                         *)
(* Conventions.  Python strings that the code inspects (text, language     *)
(* codes, voice ids) are sequences of one-character strings.  Paths are    *)
(* sequences of components.  Python None is the value None below.  Speed   *)
(* multipliers are counted in halves: 1 is 0.5, 2 is 1.0, 4 is 2.0, so     *)
(* int(base_rate * float(speed)) is (base_rate * speed) \div 2.            *)
(***************************************************************************)
EXTENDS Integers, Sequences, FiniteSets, TLC

\* ------------------------------------------------------------------ bounds
MaxCalls == 2
NumIds == 2

\* --------------------------------------------------------------- constants
DefaultRate == 200
NormalSpeed == 2

None == <<"None">>
Whitespace == {" ", "\n", "\t"}

\* Representative texts: empty, whitespace-only, and words with whitespace
\* around and between them.
BlankTexts == {<<>>, <<" ", "\t", "\n">>}
SpokenTexts == {<<" ", "h", " ", "i", "\n">>}
Texts == BlankTexts \cup SpokenTexts
Speeds == {1, 2, 4}
Engines == {"online", "offline"}
Langs == {<<"f", "r">>, <<"j", "a">>}
UserPaths == {<<"out.mp3">>}
OutputFiles == {None} \cup UserPaths
HexIds == 0 .. (NumIds - 1)

\* The voice table of the local engine (read-only).
Voices ==
  << [id |-> <<"e", "n", "1">>, languages |-> {}],
     [id |-> <<"x", "2">>, languages |-> {<<"f", "r">>}] >>

\* ----------------------------------------------------------- pure helpers
\* str.strip(): drop leading and trailing whitespace.
RECURSIVE LStrip(_)
LStrip(s) ==
  IF s = <<>> THEN <<>>
  ELSE IF Head(s) \in Whitespace THEN LStrip(Tail(s)) ELSE s

RECURSIVE RStrip(_)
RStrip(s) ==
  IF s = <<>> THEN <<>>
  ELSE IF s[Len(s)] \in Whitespace THEN RStrip(SubSeq(s, 1, Len(s) - 1)) ELSE s

Strip(s) == RStrip(LStrip(s))

\* Python truthiness of a string/path that may be None.
Truthy(s) == s # None /\ s # <<>>

\* `a in b` for strings: a occurs as a substring of b.
IsSubstring(a, b) ==
  \E i \in 0 .. (Len(b) - Len(a)) : SubSeq(b, i + 1, i + Len(a)) = a

\* tempfile.gettempdir()/tts_<uuid4().hex[:8]>.mp3; h is the random draw.
get_temp_path(h) == <<"tmp", "tts_", h, ".mp3">>

InTempDir(p) == Len(p) = 4 /\ p[1] = "tmp"

\* ------------------------------------------------------------------ state
VARIABLES
  mode,            \* which program run is modelled
  HAS_GTTS,        \* module flag: cloud client importable
  HAS_PYTTSX3,     \* module flag: local engine importable
  initOk,          \* whether pyttsx3.init() worked at construction
  offline_engine,  \* TTSManager.offline_engine
  ncalls,          \* number of speak calls made
  last,            \* observation of the most recent speak call
  prevRet,         \* what the speak call before it returned
  penv,            \* play_audio: platform, installed players, failures, speed
  played,          \* play_audio: what one call did
  controls,        \* TTSApp: state of btn_play, btn_save, text_area, progress
  text_content,    \* TTSApp: what the text area holds
  engine_var,      \* TTSApp: the engine selector
  speed_var,       \* TTSApp: the speed selector
  status_var,      \* TTSApp: the status bar
  threads,         \* TTSApp: the live worker threads
  after,           \* TTSApp: toggle_controls(True) calls queued by root.after
  nstarted,        \* TTSApp: worker threads started so far
  saved,           \* TTSApp: what the last successful save did
  args,            \* run_cli: the parsed command line and the input file
  cli              \* run_cli: what the run did and how it exited

mgrVars == <<HAS_GTTS, HAS_PYTTSX3, initOk, offline_engine>>
callVars == <<ncalls, last, prevRet>>
playVars == <<penv, played>>
guiVars ==
  <<controls, text_content, engine_var, speed_var, status_var, threads, after,
    nstarted, saved>>
cliVars == <<args, cli>>
vars == <<mode, mgrVars, callVars, playVars, guiVars, cliVars>>

NoEngine == [present |-> FALSE, rate |-> 0, voice |-> <<>>]
NewEngine == [present |-> TRUE, rate |-> DefaultRate, voice |-> Voices[1].id]

NoCall == [made |-> FALSE]

\* The frontend's variables in the runs that have no form.
GuiUnused ==
  /\ controls = NoCall /\ text_content = <<>> /\ engine_var = "online"
  /\ speed_var = "1.0x" /\ status_var = "Ready" /\ threads = {}
  /\ after = 0 /\ nstarted = 0 /\ saved = NoCall

CliUnused == args = NoCall /\ cli = NoCall

\* TTSManager.__init__: the handle exists iff pyttsx3 imported and init() worked.
ManagerInit(hasPyttsx3, ok) ==
  IF hasPyttsx3 /\ ok THEN NewEngine ELSE NoEngine

\* _set_offline_voice: first voice whose id contains lang or whose
\* languages list holds it; any exception is swallowed.
VoiceMatches(v, lang) == IsSubstring(lang, v.id) \/ lang \in v.languages

set_offline_voice(eng, lang, voicesFail) ==
  IF voicesFail THEN eng
  ELSE LET hits == {i \in 1 .. Len(Voices) : VoiceMatches(Voices[i], lang)}
       IN IF hits = {} THEN eng
          ELSE LET first == CHOOSE i \in hits : \A j \in hits : i <= j
               IN [eng EXCEPT !.voice = Voices[first].id]

\* Outcomes of the external collaborators during one speak call: the random
\* draw of uuid4, whether the backend's synthesis raises, and which engine
\* property access (if any) raises.
PropFailures == {"none", "voices", "rateRead", "rateSet"}
Outcomes == [uuid : HexIds, synthFails : BOOLEAN, prop : PropFailures]

\* The draws a call can consult: no uuid with an output path or when the
\* synthesis raises (no path is returned then), no engine property with the
\* cloud backend.
OutcomesFor(engine_type, output_file) ==
  {oc \in Outcomes :
     /\ (Truthy(output_file) \/ oc.synthFails) => oc.uuid = 0
     /\ engine_type = "online" => oc.prop = "none"}

Failed(e, eng) ==
  [exc |-> e, ret |-> None, engine |-> eng, written |-> None,
   backend |-> "none", applied |-> 0]

\* Faulty variant: _speak_online without the HAS_GTTS test.
speak_online_unchecked(text, lang, output_file, hasGtts, eng, oc) ==
  LET save_path == IF Truthy(output_file) THEN output_file
                   ELSE get_temp_path(oc.uuid)
  IN IF oc.synthFails
     THEN [Failed("BackendError", eng) EXCEPT !.backend = "gtts"]
     ELSE [exc |-> "None", ret |-> save_path, engine |-> eng,
           written |-> save_path, backend |-> "gtts", applied |-> 0]

\* _speak_online
speak_online(text, lang, output_file, hasGtts, eng, oc) ==
  IF ~hasGtts
  THEN Failed("ImportError", eng)
  ELSE LET save_path == IF Truthy(output_file) THEN output_file
                        ELSE get_temp_path(oc.uuid)
       IN IF oc.synthFails
          THEN [Failed("BackendError", eng) EXCEPT !.backend = "gtts"]
          ELSE [exc |-> "None", ret |-> save_path, engine |-> eng,
                written |-> save_path, backend |-> "gtts", applied |-> 0]

\* line 58: int(getProperty('rate') or 200), and 200 when the read raises
base_rate(eng, oc) ==
  IF oc.prop = "rateRead" \/ eng.rate = 0 THEN DefaultRate ELSE eng.rate

\* lines 61-65: setProperty('rate', int(base_rate * float(speed)))
set_rate(eng, speed, oc) ==
  IF oc.prop = "rateSet" THEN eng
  ELSE [eng EXCEPT !.rate = (base_rate(eng, oc) * speed) \div 2]

\* lines 67-75: render to output_file, or to a temp path, and return it
offline_render(e2, output_file, oc) ==
  IF oc.synthFails
  THEN [Failed("BackendError", e2) EXCEPT
          !.backend = "pyttsx3", !.applied = e2.rate]
  ELSE LET save_path == IF Truthy(output_file) THEN output_file
                        ELSE get_temp_path(oc.uuid)
       IN [exc |-> "None", ret |-> save_path, engine |-> e2,
           written |-> save_path, backend |-> "pyttsx3",
           applied |-> e2.rate]

\* _speak_offline
speak_offline(text, lang, output_file, speed, eng, oc) ==
  IF ~eng.present
  THEN Failed("ImportError", eng)
  ELSE offline_render(
         set_rate(set_offline_voice(eng, lang, oc.prop = "voices"), speed, oc),
         output_file, oc)

\* Faulty variant: speak testing `not text` instead of `not text.strip()`.
speak_empty_only(text, engine_type, lang, output_file, speed, hasGtts, eng, oc) ==
  IF text = <<>>
  THEN Failed("ValueError", eng)
  ELSE IF engine_type = "online"
       THEN speak_online(text, lang, output_file, hasGtts, eng, oc)
       ELSE speak_offline(text, lang, output_file, speed, eng, oc)

\* TTSManager.speak
speak(text, engine_type, lang, output_file, speed, hasGtts, eng, oc) ==
  IF Strip(text) = <<>>
  THEN Failed("ValueError", eng)
  ELSE IF engine_type = "online"
       THEN speak_online(text, lang, output_file, hasGtts, eng, oc)
       ELSE speak_offline(text, lang, output_file, speed, eng, oc)

\* ------------------------------------------------- Manager specification
\* A Manager is constructed and speak is called on it up to MaxCalls times.
InitManager ==
  /\ mode = "manager"
  /\ HAS_GTTS \in BOOLEAN
  /\ HAS_PYTTSX3 \in BOOLEAN
  /\ initOk \in BOOLEAN
  /\ offline_engine = ManagerInit(HAS_PYTTSX3, initOk)
  /\ ncalls = 0
  /\ last = NoCall
  /\ prevRet = None
  /\ penv = NoCall
  /\ played = NoCall
  /\ GuiUnused /\ CliUnused

CallSpeak ==
  /\ mode = "manager"
  /\ ncalls < MaxCalls
  /\ \E text \in Texts, engine_type \in Engines, lang \in Langs,
        output_file \in OutputFiles, speed \in Speeds :
       \E oc \in OutcomesFor(engine_type, output_file) :
         \E r \in {speak(text, engine_type, lang, output_file, speed,
                        HAS_GTTS, offline_engine, oc)} :
            /\ offline_engine' = r.engine
            /\ last' = [made |-> TRUE, text |-> text,
                        engine_type |-> engine_type,
                        output_file |-> output_file, speed |-> speed,
                        exc |-> r.exc, ret |-> r.ret, backend |-> r.backend,
                        written |-> r.written, applied |-> r.applied,
                        rateSet |-> oc.prop # "rateSet",
                        engineChanged |-> r.engine # offline_engine]
            /\ prevRet' = IF last.made THEN last.ret ELSE None
  /\ ncalls' = ncalls + 1
  /\ UNCHANGED <<mode, HAS_GTTS, HAS_PYTTSX3, initOk, playVars, guiVars, cliVars>>

NextManager == CallSpeak

SpecManager == InitManager /\ [][NextManager]_vars

\* A text is blank when it is empty or holds whitespace only.
IsBlank(t) == \A i \in 1 .. Len(t) : t[i] \in Whitespace

\* C1: speak with empty or whitespace-only text raises the validation error
\* for every engine, language, output path and speed, before any backend is
\* dispatched: no backend runs, no file is written, the engine's voice and
\* rate are untouched, also when the chosen backend is unavailable.
C1_BlankTextRejected ==
  (last.made /\ IsBlank(last.text)) =>
    /\ last.exc = "ValueError"
    /\ last.ret = None
    /\ last.backend = "none"
    /\ last.written = None
    /\ ~last.engineChanged

\* a whitespace-only text sent to an unavailable local backend, after an
\* earlier call
C1_Witness ==
  /\ last.made /\ ncalls = 2
  /\ last.text # <<>> /\ IsBlank(last.text)
  /\ last.engine_type = "offline" /\ ~offline_engine.present
  /\ last.exc = "ValueError"

\* The local engine could not be constructed.
ConstructionFailed == ~(HAS_PYTTSX3 /\ initOk)

\* C7: with non-blank text, every cloud call fails with the
\* unavailable-backend error while the cloud client is absent, and every
\* local call does once engine construction failed; no path is returned and
\* the handle stays absent.
C7_UnavailableBackend ==
  /\ ConstructionFailed => ~offline_engine.present
  /\ (last.made /\ ~IsBlank(last.text)) =>
       /\ (last.engine_type = "online" /\ ~HAS_GTTS) =>
            (last.exc = "ImportError" /\ last.ret = None)
       /\ (last.engine_type = "offline" /\ ConstructionFailed) =>
            (last.exc = "ImportError" /\ last.ret = None)

\* the second of two calls hits an absent backend
C7_Witness ==
  /\ last.made /\ ncalls = 2 /\ ~IsBlank(last.text)
  /\ last.exc = "ImportError"
  /\ \/ last.engine_type = "online" /\ ~HAS_GTTS
     \/ last.engine_type = "offline" /\ HAS_PYTTSX3 /\ ~initOk

\* C9: a successful speak returns exactly the supplied output path and
\* writes the audio there; without an output path it returns a path in the
\* temp directory, distinct from the one the previous call returned.
C9_ReturnedPath ==
  (last.made /\ last.exc = "None") =>
    /\ Truthy(last.output_file) =>
         (last.ret = last.output_file /\ last.written = last.output_file)
    /\ ~Truthy(last.output_file) =>
         /\ InTempDir(last.ret)
         /\ last.written = last.ret
         /\ InTempDir(prevRet) => last.ret # prevRet

\* C10: a local speak call with speed s applies the rate 200*s on an engine
\* whose base rate is 200, whatever calls came before (s is in halves, so
\* 200*s is 100 * speed).
C10_RateIndependent ==
  (last.made /\ last.backend = "pyttsx3" /\ last.rateSet) =>
    last.applied = (DefaultRate * last.speed) \div NormalSpeed

\* ------------------------------------------------------------ play_audio
Systems == {"Windows", "Darwin", "Linux"}
players == <<"mpg123", "aplay", "paplay", "xdg-open">>
Programs == {"mpv"} \cup {players[i] : i \in 1 .. Len(players)}
Mechanisms == Programs \cup {"startfile", "afplay"}

\* The environment of one play_audio call: platform.system(), the programs
\* `which` finds, the mechanisms whose launch raises, and whether a
\* messagebox call raises (no display, no usable Tk).
PlayEnvs ==
  [system : Systems, installed : SUBSET Programs, broken : SUBSET Mechanisms,
   dialogsRaise : BOOLEAN]

NothingPlayed ==
  [attempts |-> <<>>, launched |-> <<>>, warnings |-> 0,
   error |-> FALSE, raised |-> FALSE]

\* TTSManager._which
which(program, env) == program \in env.installed

\* One launch attempt (Popen, subprocess.call or os.startfile).
Attempt(acc, prog, how, flag, ok) ==
  LET l == [prog |-> prog, how |-> how, speedFlag |-> flag]
  IN [acc EXCEPT !.attempts = Append(@, l),
                 !.launched = IF ok THEN Append(@, l) ELSE @]

\* The statements after a launch inside a try block (lines 116-118,
\* 125-127, 137-139): the speed warning, then return.  returned is FALSE
\* when showwarning raised into the surrounding except clause.
WarnAndReturn(acc, speed, env) ==
  IF speed = NormalSpeed THEN [returned |-> TRUE, acc |-> acc]
  ELSE IF env.dialogsRaise THEN [returned |-> FALSE, acc |-> acc]
  ELSE [returned |-> TRUE, acc |-> [acc EXCEPT !.warnings = @ + 1]]

\* One try block of the platform branches: launch, warn, return.
TryLaunch(acc, prog, how, speed, env) ==
  IF prog \in env.broken
  THEN [returned |-> FALSE, acc |-> Attempt(acc, prog, how, FALSE, FALSE)]
  ELSE WarnAndReturn(Attempt(acc, prog, how, FALSE, TRUE), speed, env)

\* Faulty variant: mpv used only when a non-default speed is requested.
TryMpvOnlyForSpeed(speed, env) ==
  IF which("mpv", env) /\ speed # NormalSpeed
  THEN [returned |-> "mpv" \notin env.broken,
        acc |-> Attempt(NothingPlayed, "mpv", "Popen", TRUE,
                        "mpv" \notin env.broken)]
  ELSE [returned |-> FALSE, acc |-> NothingPlayed]

\* lines 102-110: prefer mpv, with --speed when speed is not 1.0
TryMpv(speed, env) ==
  IF which("mpv", env)
  THEN [returned |-> "mpv" \notin env.broken,
        acc |-> Attempt(NothingPlayed, "mpv", "Popen", speed # NormalSpeed,
                        "mpv" \notin env.broken)]
  ELSE [returned |-> FALSE, acc |-> NothingPlayed]

\* lines 132-141: the Linux fallback players, in order
RECURSIVE LinuxPlayers(_, _, _, _)
LinuxPlayers(acc, i, speed, env) ==
  IF i > Len(players) THEN [returned |-> FALSE, acc |-> acc]
  ELSE IF ~which(players[i], env) THEN LinuxPlayers(acc, i + 1, speed, env)
  ELSE LET r == TryLaunch(acc, players[i], "Popen", speed, env)
       IN IF r.returned THEN r ELSE LinuxPlayers(r.acc, i + 1, speed, env)

\* lines 112-141: the platform branch
TryPlatform(acc, speed, env) ==
  CASE env.system = "Windows" -> TryLaunch(acc, "startfile", "startfile", speed, env)
    [] env.system = "Darwin" -> TryLaunch(acc, "afplay", "call", speed, env)
    [] OTHER -> LinuxPlayers(acc, 1, speed, env)

\* line 152: the error dialog of the last resort; it raises out of
\* play_audio when the dialog itself cannot be shown
ShowError(acc, env) ==
  IF env.dialogsRaise THEN [acc EXCEPT !.raised = TRUE]
  ELSE [acc EXCEPT !.error = TRUE]

\* lines 143-152: os.startfile where it exists, else xdg-open
LastResort(acc, speed, env) ==
  LET prog == IF env.system = "Windows" THEN "startfile" ELSE "xdg-open"
      how == IF env.system = "Windows" THEN "startfile" ELSE "call"
      ok == /\ prog \notin env.broken
            /\ prog = "xdg-open" => which(prog, env)
      r == WarnAndReturn(Attempt(acc, prog, how, FALSE, ok), speed, env)
  IN IF ~ok THEN ShowError(Attempt(acc, prog, how, FALSE, FALSE), env)
     ELSE IF r.returned THEN r.acc ELSE ShowError(r.acc, env)

AfterPlatform(p, speed, env) ==
  IF p.returned THEN p.acc ELSE LastResort(p.acc, speed, env)

AfterMpv(m, speed, env) ==
  IF m.returned THEN m.acc
  ELSE AfterPlatform(TryPlatform(m.acc, speed, env), speed, env)

\* TTSManager.play_audio
play_audio(speed, env) == AfterMpv(TryMpv(speed, env), speed, env)

\* --------------------------------------------- play_audio specification
InitPlay ==
  /\ mode = "play"
  /\ HAS_GTTS = FALSE /\ HAS_PYTTSX3 = FALSE /\ initOk = FALSE
  /\ offline_engine = NoEngine
  /\ ncalls = 0 /\ last = NoCall /\ prevRet = None
  /\ \E env \in PlayEnvs, speed \in Speeds :
        penv = [made |-> TRUE, env |-> env, speed |-> speed]
  /\ played = NoCall
  /\ GuiUnused /\ CliUnused

CallPlayAudio ==
  /\ mode = "play"
  /\ ~played.made
  /\ played' = [made |-> TRUE, did |-> play_audio(penv.speed, penv.env)]
  /\ UNCHANGED <<mode, mgrVars, callVars, penv, guiVars, cliVars>>

NextPlay == CallPlayAudio

SpecPlay == InitPlay /\ [][NextPlay]_vars

MpvLaunch(speed) ==
  [prog |-> "mpv", how |-> "Popen", speedFlag |-> speed # NormalSpeed]

\* C5: one play_audio call starts at most one playback: once a mechanism
\* has been launched no later mechanism is invoked, also when a non-default
\* speed triggers the speed warning.
C5_FirstSuccessWins ==
  played.made =>
    /\ Len(played.did.launched) <= 1
    /\ played.did.launched # <<>> =>
         played.did.attempts[Len(played.did.attempts)] = played.did.launched[1]

\* C6 as stated: with mpv present, mpv is the one mechanism invoked, with
\* the speed flag exactly when the speed is not 1.0.
C6_MpvAlwaysChosen ==
  (played.made /\ which("mpv", penv.env)) =>
    /\ played.did.attempts = <<MpvLaunch(penv.speed)>>
    /\ played.did.launched = played.did.attempts

\* C6 amended: with mpv present, mpv is tried first at every speed, 1.0
\* included, with the speed flag exactly when the speed is not 1.0; when
\* that launch succeeds nothing else is invoked and no warning is shown.
C6_MpvTriedFirst ==
  (played.made /\ which("mpv", penv.env)) =>
    /\ played.did.attempts # <<>>
    /\ played.did.attempts[1] = MpvLaunch(penv.speed)
    /\ "mpv" \notin penv.env.broken =>
         /\ played.did.attempts = <<MpvLaunch(penv.speed)>>
         /\ played.did.launched = played.did.attempts
         /\ played.did.warnings = 0 /\ ~played.did.error /\ ~played.did.raised

\* mpv present and working next to other players, at speed 1.0
C6_Witness ==
  /\ played.made
  /\ penv.speed = NormalSpeed
  /\ penv.env.system = "Linux"
  /\ {"mpv", "mpg123"} \subseteq penv.env.installed
  /\ penv.env.broken = {}
  /\ played.did.launched = <<MpvLaunch(NormalSpeed)>>

\* ------------------------------------------------- interactive frontend
MaxActions == 2

SpeedChoices == {"0.5x", "1.0x", "2.0x"}
TextContents == {<<>>, <<"h", "i">>}
lang_var == <<"e", "n">>

\* What play_audio can meet under a running form.
GuiPlayEnvs ==
  [system : {"Linux"}, installed : {{}, {"mpv"}, {"mpg123", "aplay"}},
   broken : {{}}, dialogsRaise : BOOLEAN]

\* TTSApp._parse_speed: the selector's text without its x, as a float, 1.0
\* when that fails (in halves)
parse_speed(v) ==
  CASE v = "0.5x" -> 1
    [] v = "1.0x" -> NormalSpeed
    [] v = "2.0x" -> 4
    [] OTHER -> NormalSpeed

\* text_area.get("1.0", tk.END).strip(): Tk appends a newline to the content
get_text(content) == Strip(content \o <<"\n">>)

\* Faulty variant: toggle_controls that leaves the Save button alone.
toggle_controls_play_only(enable) ==
  [btn_play |-> IF enable THEN "normal" ELSE "disabled",
   btn_save |-> "normal",
   text_area |-> IF enable THEN "normal" ELSE "disabled",
   progress |-> ~enable]

\* TTSApp.toggle_controls
toggle_controls(enable) ==
  [btn_play |-> IF enable THEN "normal" ELSE "disabled",
   btn_save |-> IF enable THEN "normal" ELSE "disabled",
   text_area |-> IF enable THEN "normal" ELSE "disabled",
   progress |-> ~enable]

DialogPcs == {"success_dialog", "note_dialog", "error_dialog"}

\* A message box of a worker is up; it holds the grab, so the form takes no
\* input until it is dismissed.
DialogUp == \E t \in threads : t.pc \in DialogPcs

\* threading.Thread(target=..., args=...).start()
start_thread(kind, text, filepath, speed) ==
  /\ nstarted < MaxActions
  /\ nstarted' = nstarted + 1
  /\ threads' = threads \cup
       {[id |-> nstarted + 1, kind |-> kind, pc |-> "start", text |-> text,
         filepath |-> filepath, speed |-> speed, engine |-> "unread",
         lang |-> <<>>]}

\* TTSApp.on_play
on_play ==
  /\ mode = "gui" /\ ~DialogUp
  /\ controls.btn_play = "normal"
  /\ IF get_text(text_content) = <<>>
     THEN UNCHANGED <<controls, status_var, threads, nstarted>>
     ELSE /\ controls' = toggle_controls(FALSE)
          /\ status_var' = "Synthesizing..."
          /\ start_thread("play", get_text(text_content), None,
                          parse_speed(speed_var))
  /\ UNCHANGED <<mgrVars, callVars, playVars, cliVars, mode, text_content, engine_var,
                 speed_var, after, saved>>

\* TTSApp.on_save; file_path is what the modal save dialog returned, empty
\* when it was cancelled
on_save ==
  /\ mode = "gui" /\ ~DialogUp
  /\ controls.btn_save = "normal"
  /\ \E file_path \in {<<>>} \cup UserPaths :
       IF get_text(text_content) = <<>> \/ ~Truthy(file_path)
       THEN UNCHANGED <<controls, status_var, threads, nstarted>>
       ELSE /\ controls' = toggle_controls(FALSE)
            /\ status_var' = "Saving..."
            /\ start_thread("save", get_text(text_content), file_path,
                            parse_speed(speed_var))
  /\ UNCHANGED <<mgrVars, callVars, playVars, cliVars, mode, text_content, engine_var,
                 speed_var, after, saved>>

\* TTSApp.load_text_file; a disabled Tk text widget ignores delete/insert
load_text_file ==
  /\ mode = "gui" /\ ~DialogUp
  /\ \E chosen \in BOOLEAN, content \in TextContents :
       text_content' = IF chosen /\ controls.text_area = "normal"
                       THEN content ELSE text_content
  /\ UNCHANGED <<mgrVars, callVars, playVars, cliVars, mode, controls, engine_var,
                 speed_var, status_var, threads, after, nstarted, saved>>

\* The user types into the text area (setup_ui, lines 214-216).
UserEditsText ==
  /\ mode = "gui" /\ ~DialogUp
  /\ controls.text_area = "normal"
  /\ \E content \in TextContents : text_content' = content
  /\ UNCHANGED <<mgrVars, callVars, playVars, cliVars, mode, controls, engine_var,
                 speed_var, status_var, threads, after, nstarted, saved>>

\* The user picks an engine; the selector is never disabled (lines 189-192).
UserSelectsEngine ==
  /\ mode = "gui" /\ ~DialogUp
  /\ \E e \in Engines : engine_var' = e
  /\ UNCHANGED <<mgrVars, callVars, playVars, cliVars, mode, controls, text_content,
                 speed_var, status_var, threads, after, nstarted, saved>>

\* The user picks a speed; the selector is never disabled (lines 203-206).
UserSelectsSpeed ==
  /\ mode = "gui" /\ ~DialogUp
  /\ \E v \in SpeedChoices : speed_var' = v
  /\ UNCHANGED <<mgrVars, callVars, playVars, cliVars, mode, controls, text_content,
                 engine_var, status_var, threads, after, nstarted, saved>>

\* The event loop runs a callback queued with root.after(0, toggle_controls, True).
RunAfter ==
  /\ mode = "gui"
  /\ after > 0
  /\ after' = after - 1
  /\ controls' = toggle_controls(TRUE)
  /\ UNCHANGED <<mgrVars, callVars, playVars, cliVars, mode, text_content, engine_var,
                 speed_var, status_var, threads, nstarted, saved>>

Move(t, pc) == threads' = (threads \ {t}) \cup {[t EXCEPT !.pc = pc]}

\* Faulty variant: the worker calls toggle_controls(True) itself.
run_finally_direct(t) ==
  /\ threads' = threads \ {t}
  /\ after' = after
  /\ controls' = toggle_controls(TRUE)

\* the finally clause of _run_play and _run_save, after which the thread ends
run_finally(t) ==
  /\ threads' = threads \ {t}
  /\ after' = after + 1
  /\ controls' = controls

\* lines 270 and 298: the arguments of manager.speak are read, speak begins
WorkerCallsSpeak(t) ==
  /\ t.pc = "start"
  /\ threads' = (threads \ {t}) \cup
       {[t EXCEPT !.pc = "in_speak", !.engine = engine_var, !.lang = lang_var]}
  /\ UNCHANGED <<mgrVars, callVars, playVars, cliVars, mode, controls, text_content,
                 engine_var, speed_var, status_var, after, nstarted, saved>>

\* manager.speak returns or raises
WorkerSpeakReturns(t) ==
  /\ t.pc = "in_speak"
  /\ \E oc \in OutcomesFor(t.engine, t.filepath) :
       \E r \in {speak(t.text, t.engine, t.lang, t.filepath, t.speed,
                       HAS_GTTS, offline_engine, oc)} :
         /\ offline_engine' = r.engine
         /\ IF r.exc # "None"
            THEN Move(t, "error_dialog") /\ status_var' = status_var
            ELSE IF t.kind = "play"
            THEN Move(t, "play") /\ status_var' = "Playing..."
            ELSE Move(t, "success_dialog") /\ status_var' = status_var
  /\ UNCHANGED <<HAS_GTTS, HAS_PYTTSX3, initOk, callVars, playVars, cliVars, mode,
                 controls, text_content, engine_var, speed_var, after,
                 nstarted, saved>>

\* _run_play, lines 272-273: play_audio, then "Done"
WorkerPlays(t) ==
  /\ t.pc = "play"
  /\ \E env \in GuiPlayEnvs :
       IF play_audio(t.speed, env).raised
       THEN /\ Move(t, "error_dialog")
            /\ UNCHANGED <<status_var, after, controls>>
       ELSE /\ status_var' = "Done"
            /\ run_finally(t)
  /\ UNCHANGED <<mgrVars, callVars, playVars, cliVars, mode, text_content, engine_var,
                 speed_var, nstarted, saved>>

\* _run_save, lines 299-302: the confirmation is dismissed, the engine
\* selector is read again and decides the note
WorkerConfirmsSave(t) ==
  /\ t.pc = "success_dialog"
  /\ LET note == engine_var = "online" /\ t.speed # NormalSpeed
     IN /\ saved' = [made |-> TRUE, engine |-> t.engine, speed |-> t.speed,
                     note |-> note]
        /\ IF note
           THEN /\ Move(t, "note_dialog")
                /\ UNCHANGED <<status_var, after, controls>>
           ELSE /\ status_var' = "Saved"
                /\ run_finally(t)
  /\ UNCHANGED <<mgrVars, callVars, playVars, cliVars, mode, text_content, engine_var,
                 speed_var, nstarted>>

\* _run_save, lines 301-302: the note is dismissed, then "Saved"
WorkerNoteDismissed(t) ==
  /\ t.pc = "note_dialog"
  /\ status_var' = "Saved"
  /\ run_finally(t)
  /\ UNCHANGED <<mgrVars, callVars, playVars, cliVars, mode, text_content, engine_var,
                 speed_var, nstarted, saved>>

\* the except clauses, lines 274-276 and 303-305: error dialog, then "Error"
WorkerErrorDismissed(t) ==
  /\ t.pc = "error_dialog"
  /\ status_var' = "Error"
  /\ run_finally(t)
  /\ UNCHANGED <<mgrVars, callVars, playVars, cliVars, mode, text_content, engine_var,
                 speed_var, nstarted, saved>>

WorkerStep ==
  /\ mode = "gui"
  /\ \E t \in threads :
       \/ WorkerCallsSpeak(t)
       \/ WorkerSpeakReturns(t)
       \/ WorkerPlays(t)
       \/ WorkerConfirmsSave(t)
       \/ WorkerNoteDismissed(t)
       \/ WorkerErrorDismissed(t)

\* TTSApp.__init__ and setup_ui
InitGui ==
  /\ mode = "gui"
  /\ HAS_GTTS \in BOOLEAN
  /\ HAS_PYTTSX3 \in BOOLEAN
  /\ initOk \in BOOLEAN
  /\ offline_engine = ManagerInit(HAS_PYTTSX3, initOk)
  /\ ncalls = 0 /\ last = NoCall /\ prevRet = None
  /\ penv = NoCall /\ played = NoCall
  /\ controls = toggle_controls(TRUE)
  /\ text_content = <<>>
  /\ engine_var = "online"
  /\ speed_var = "1.0x"
  /\ status_var = "Ready"
  /\ threads = {}
  /\ after = 0
  /\ nstarted = 0
  /\ saved = NoCall
  /\ CliUnused

NextGui ==
  \/ on_play
  \/ on_save
  \/ load_text_file
  \/ UserEditsText
  \/ UserSelectsEngine
  \/ UserSelectsSpeed
  \/ RunAfter
  \/ WorkerStep

\* The worker thread and the Tk event loop are scheduled fairly; the user
\* need not do anything.
SpecGui == InitGui /\ [][NextGui]_vars /\ WF_vars(WorkerStep) /\ WF_vars(RunAfter)

\* Actions whose worker runs or whose completion is still to be processed.
InFlight == Cardinality(threads) + after

ControlsDisabled ==
  /\ controls.btn_play = "disabled"
  /\ controls.btn_save = "disabled"
  /\ controls.text_area = "disabled"

\* Worker threads inside a call on the local engine handle.
UsingEngine == {t \in threads : t.pc = "in_speak" /\ t.engine = "offline"}

\* C2: at most one Play/Save action is in flight; from the start of its
\* worker until its completion is processed the Play button, the Save
\* button and the text area are disabled, and the local engine handle is
\* used by at most one thread.
C2_OneActionInFlight ==
  /\ InFlight <= 1
  /\ InFlight = 1 => ControlsDisabled
  /\ Cardinality(UsingEngine) <= 1

\* a second action is inside the local engine after the first one completed
C2_Witness ==
  /\ nstarted = 2
  /\ after = 0
  /\ \E t \in threads : t.id = 2 /\ t.pc = "in_speak" /\ t.engine = "offline"
  /\ offline_engine.present

Busy == controls.btn_play = "disabled"
Idle ==
  /\ controls.btn_play = "normal" /\ controls.btn_save = "normal"
  /\ controls.text_area = "normal" /\ ~controls.progress

C8_NoteIffCloudUsed ==
  saved.made =>
    (saved.note <=> (saved.engine = "online" /\ saved.speed # NormalSpeed))

\* ------------------------------------------------- command-line frontend
InputFile == <<"in.txt">>
MissingFile == <<"missing.txt">>

\* os.path.exists
exists(path) == path = InputFile

\* What play_audio can meet in a command-line run.
CliPlayEnvs ==
  [system : {"Linux"}, installed : {{}, {"mpv"}, {"mpg123", "aplay"}},
   broken : {{}}, dialogsRaise : BOOLEAN]

\* The parsed arguments (text, --input, --engine, --file, --play, --speed;
\* --lang stays at its default) and what the input file holds.
CliArgs ==
  {a \in [text : {None} \cup Texts, input : {None, <<>>, MissingFile, InputFile},
          content : Texts, engine : Engines, file : OutputFiles,
          play : BOOLEAN, speed : Speeds] :
     a.input # InputFile => a.content = <<>>}

Exit(code, message, calls, exc) ==
  [made |-> TRUE, exit |-> code, message |-> message, speakCalls |-> calls,
   exc |-> exc]

\* lines 334-347: the Manager is built, speak is called once, the result is
\* reported and optionally played; every exception is printed, exit code 0
cli_synthesize(text, a, eng, oc, env) ==
  LET r == speak(text, a.engine, lang_var, a.file, a.speed, HAS_GTTS, eng, oc)
  IN IF r.exc # "None" THEN Exit(0, "Error:", 1, r.exc)
     ELSE IF a.play /\ play_audio(a.speed, env).raised
     THEN Exit(0, "Error:", 1, "TclError")
     ELSE Exit(0, IF Truthy(a.file) THEN "Saved to:" ELSE "none", 1, "None")

\* lines 321-332: the text comes from --input when given, else from the
\* positional argument; a missing file and an empty text exit with code 1
run_cli(a, eng, oc, env) ==
  IF Truthy(a.input) /\ ~exists(a.input)
  THEN Exit(1, "not found", 0, "None")
  ELSE LET text == IF Truthy(a.input) THEN a.content ELSE a.text
       IN IF ~Truthy(text)
          THEN Exit(1, "No text provided", 0, "None")
          ELSE cli_synthesize(text, a, eng, oc, env)

InitCli ==
  /\ mode = "cli"
  /\ HAS_GTTS \in BOOLEAN
  /\ HAS_PYTTSX3 \in BOOLEAN
  /\ initOk \in BOOLEAN
  /\ offline_engine = NoEngine
  /\ ncalls = 0 /\ last = NoCall /\ prevRet = None
  /\ penv = NoCall /\ played = NoCall
  /\ GuiUnused
  /\ args \in CliArgs
  /\ cli = NoCall

RunCli ==
  /\ mode = "cli"
  /\ ~cli.made
  /\ \E oc \in OutcomesFor(args.engine, args.file), env \in CliPlayEnvs :
       cli' = run_cli(args, ManagerInit(HAS_PYTTSX3, initOk), oc, env)
  /\ UNCHANGED <<mode, mgrVars, callVars, playVars, guiVars, args>>

NextCli == RunCli

SpecCli == InitCli /\ [][NextCli]_vars

\* The text the run resolves: the input file's when --input is given, else
\* the positional argument.
ResolvedText == IF Truthy(args.input) THEN args.content ELSE args.text

NoNonBlankText == ResolvedText = None \/ IsBlank(ResolvedText)

\* C4: a run exits with code 1 exactly when the --input file does not exist
\* or no non-blank text is given, and then attempts no synthesis; every
\* other run calls the Manager once, prints any failure with the Error:
\* prefix and exits with code 0.
C4_ExitCodes ==
  cli.made =>
    /\ cli.exit = 1 <=>
         ((Truthy(args.input) /\ ~exists(args.input)) \/ NoNonBlankText)
    /\ cli.exit = 1 => cli.speakCalls = 0
    /\ cli.exit # 1 =>
         /\ cli.exit = 0 /\ cli.speakCalls = 1
         /\ cli.exc # "None" => cli.message = "Error:"

====
